---------------------------- MODULE Spec2Model ----------------------------
(***************************************************************************)
(* Model of the compliance scan tool (src/compare.py): rule loading,       *)
(* repository enumeration, agent invocation, output sanitization, report   *)
(* storage and the HTML summary renderer, together with the fence          *)
(* stripping shared with src/spec.py and src/correct_json.py.              *)
(*                                                                         *)
(* Texts are sequences of tokens.  A token is either one character or one  *)
(* complete serialized JSON value; a JSON token remembers the value it     *)
(* serializes and whether it is laid out as json.dumps(v, indent=2) lays   *)
(* it out (indent = 2) or in some other layout (indent = 0).               *)
(***************************************************************************)
EXTENDS Integers, Sequences, FiniteSets, TLC

(***************************************************************************)
(* Bounds of the model.                                                    *)
(***************************************************************************)
MaxChunks == 4      \* chunks concatenated into one sanitizer input
MaxChecks == 2      \* checks in one report of the cell specification
MaxRepos == 2       \* child directories of the base path
MaxRules == 2       \* rules in the rules document

(***************************************************************************)
(* JSON values.  An object carries the two keys the renderer reads; every  *)
(* other JSON value (an array, a number, ...) is of type "array".          *)
(***************************************************************************)
NoValue == [type |-> "none", hasRepoName |-> FALSE, repoName |-> <<>>,
            hasChecks |-> FALSE, checks |-> <<>>]

JsonArray == [type |-> "array", hasRepoName |-> FALSE, repoName |-> <<>>,
              hasChecks |-> FALSE, checks |-> <<>>]

JsonObject(hasName, name, hasChecks, checks) ==
    [type |-> "object", hasRepoName |-> hasName, repoName |-> name,
     hasChecks |-> hasChecks, checks |-> checks]

(***************************************************************************)
(* Tokens and texts.                                                       *)
(***************************************************************************)
Ch(c) == [c |-> c, v |-> NoValue, indent |-> 0]

JsonTok(v, indent) == [c |-> "json", v |-> v, indent |-> indent]

IsJsonTok(t) == t.c = "json"

Backtick == Ch("tick")   \* the character U+0060

Whitespace == {Ch(" "), Ch("\n")}

FenceOpen == <<Backtick, Backtick, Backtick, Ch("j"), Ch("s"), Ch("o"), Ch("n")>>

FenceClose == <<Backtick, Backtick, Backtick>>

StartsWith(s, p) == Len(s) >= Len(p) /\ SubSeq(s, 1, Len(p)) = p

EndsWith(s, p) == Len(s) >= Len(p) /\ SubSeq(s, Len(s) - Len(p) + 1, Len(s)) = p

RECURSIVE LStrip(_)
LStrip(s) == IF s # <<>> /\ Head(s) \in Whitespace THEN LStrip(Tail(s)) ELSE s

RECURSIVE RStrip(_)
RStrip(s) ==
    IF s # <<>> /\ s[Len(s)] \in Whitespace THEN RStrip(SubSeq(s, 1, Len(s) - 1)) ELSE s

Strip(s) == RStrip(LStrip(s))

RemovePrefix(s, p) == IF StartsWith(s, p) THEN SubSeq(s, Len(p) + 1, Len(s)) ELSE s

RemoveSuffix(s, p) == IF EndsWith(s, p) THEN SubSeq(s, 1, Len(s) - Len(p)) ELSE s

(***************************************************************************)
(* The sanitizer of the scan tool and of the rule generator: strip, drop   *)
(* the opening fence and left-trim, drop the closing fence and right-trim. *)
(***************************************************************************)
SanitizeNoRTrim(text) ==
    LET s1 == Strip(text)
        s2 == IF StartsWith(s1, FenceOpen)
              THEN LStrip(SubSeq(s1, Len(FenceOpen) + 1, Len(s1)))
              ELSE s1
    IN  IF EndsWith(s2, FenceClose)
        THEN SubSeq(s2, 1, Len(s2) - Len(FenceClose))
        ELSE s2

Sanitize(text) ==
    LET s1 == Strip(text)
        s2 == IF StartsWith(s1, FenceOpen)
              THEN LStrip(SubSeq(s1, Len(FenceOpen) + 1, Len(s1)))
              ELSE s1
    IN  IF EndsWith(s2, FenceClose)
        THEN RStrip(SubSeq(s2, 1, Len(s2) - Len(FenceClose)))
        ELSE s2

\* the sanitizer of the rule generator, src/spec.py lines 63-68
SpecSanitizer(text) ==
    LET s1 == Strip(text)
        s2 == IF StartsWith(s1, FenceOpen)
              THEN LStrip(SubSeq(s1, Len(FenceOpen) + 1, Len(s1)))
              ELSE s1
    IN  IF EndsWith(s2, FenceClose)
        THEN RStrip(SubSeq(s2, 1, Len(s2) - Len(FenceClose)))
        ELSE s2

(***************************************************************************)
(* clean_json_file: strip, removeprefix, removesuffix, one final strip.    *)
(***************************************************************************)
CleanJsonContentNoFinalStrip(content) ==
    LET c1 == Strip(content)
        c2 == IF StartsWith(c1, FenceOpen) THEN RemovePrefix(c1, FenceOpen) ELSE c1
    IN  IF EndsWith(c2, FenceClose) THEN RemoveSuffix(c2, FenceClose) ELSE c2

CleanJsonContent(content) ==
    LET c1 == Strip(content)
        c2 == IF StartsWith(c1, FenceOpen) THEN RemovePrefix(c1, FenceOpen) ELSE c1
        c3 == IF EndsWith(c2, FenceClose) THEN RemoveSuffix(c2, FenceClose) ELSE c2
    IN  Strip(c3)

(***************************************************************************)
(* json.loads / json.dumps on texts.  A text parses iff it is one JSON     *)
(* value with optional whitespace around it.                               *)
(***************************************************************************)
JsonParses(text) ==
    LET s == Strip(text) IN Len(s) = 1 /\ IsJsonTok(s[1])

JsonLoads(text) == Strip(text)[1].v

JsonDumpsIndent2(v) == <<JsonTok(v, 2)>>

(***************************************************************************)
(* Python strings that are compared or lower-cased are sequences of        *)
(* one-character strings.  CodePoint gives the order str comparison uses.  *)
(***************************************************************************)
CodePoint(c) ==
    CASE c = "." -> 46
      [] c = "A" -> 65
      [] c = "B" -> 66
      [] c = "F" -> 70
      [] c = "I" -> 73
      [] c = "L" -> 76
      [] c = "P" -> 80
      [] c = "S" -> 83
      [] c = "a" -> 97
      [] c = "b" -> 98
      [] c = "d" -> 100
      [] c = "e" -> 101
      [] c = "f" -> 102
      [] c = "i" -> 105
      [] c = "l" -> 108
      [] c = "p" -> 112
      [] c = "s" -> 115
      [] OTHER -> 120

\* str.__lt__: lexicographic by code point, a proper prefix is smaller
RECURSIVE StrLess(_, _)
StrLess(a, b) ==
    IF b = <<>> THEN FALSE
    ELSE IF a = <<>> THEN TRUE
    ELSE IF CodePoint(Head(a)) # CodePoint(Head(b))
         THEN CodePoint(Head(a)) < CodePoint(Head(b))
    ELSE StrLess(Tail(a), Tail(b))

LowerChar(c) ==
    CASE c = "A" -> "a"
      [] c = "B" -> "b"
      [] c = "F" -> "f"
      [] c = "I" -> "i"
      [] c = "L" -> "l"
      [] c = "P" -> "p"
      [] c = "S" -> "s"
      [] OTHER -> c

\* str.lower()
Lower(s) == [k \in 1..Len(s) |-> LowerChar(s[k])]

PassStr == <<"p", "a", "s", "s">>

FailStr == <<"f", "a", "i", "l">>

(***************************************************************************)
(* Rules and checks.  A rule is [id, hasTitle, title]; a check is          *)
(* [id, hasResult, result].                                                *)
(***************************************************************************)
Rule(id, hasTitle, title) == [id |-> id, hasTitle |-> hasTitle, title |-> title]

Check(id, hasResult, result) == [id |-> id, hasResult |-> hasResult, result |-> result]

\* report.get('repoName', '') : the sort key
SortKey(report) == IF report.hasRepoName THEN report.repoName ELSE <<>>

\* report.get("repoName", "Unnamed Repo") : the column header
UnnamedRepo == <<"Unnamed Repo">>

ColumnName(report) == IF report.hasRepoName THEN report.repoName ELSE UnnamedRepo

\* rule.get("title", "Untitled Rule")
RowTitle(rule) == IF rule.hasTitle THEN rule.title ELSE "Untitled Rule"

\* report.get('checks', [])
ChecksOf(report) == IF report.hasChecks THEN report.checks ELSE <<>>

\* check.get('result', '').lower()
ResultOfCaseSensitive(check) == IF check.hasResult THEN check.result ELSE <<>>

ResultOf(check) == Lower(IF check.hasResult THEN check.result ELSE <<>>)

(***************************************************************************)
(* One cell of the matrix: the inner loop over the report's checks, which  *)
(* stops at the first check whose id equals the rule's id.                 *)
(***************************************************************************)
RECURSIVE CellSymbolLastMatch(_, _)
CellSymbolLastMatch(rule, checks) ==
    IF checks = <<>> THEN "unknown"
    ELSE LET last == checks[Len(checks)]
             init == SubSeq(checks, 1, Len(checks) - 1)
         IN  IF last.id = rule.id
             THEN IF ResultOf(last) = PassStr THEN "pass"
                  ELSE IF ResultOf(last) = FailStr THEN "fail"
                  ELSE "unknown"
             ELSE CellSymbolLastMatch(rule, init)

RECURSIVE CellSymbol(_, _)
CellSymbol(rule, checks) ==
    IF checks = <<>> THEN "unknown"
    ELSE IF Head(checks).id = rule.id
         THEN IF ResultOf(Head(checks)) = PassStr THEN "pass"
              ELSE IF ResultOf(Head(checks)) = FailStr THEN "fail"
              ELSE "unknown"
    ELSE CellSymbol(rule, Tail(checks))

(***************************************************************************)
(* list.sort(key=...) : a stable sort by repoName.                         *)
(***************************************************************************)
RECURSIVE InsertByKey(_, _)
InsertByKey(sorted, r) ==
    IF sorted = <<>> THEN <<r>>
    ELSE IF StrLess(SortKey(r), SortKey(Head(sorted)))
         THEN <<r>> \o sorted
    ELSE <<Head(sorted)>> \o InsertByKey(Tail(sorted), r)

\* the reports in the order glob returned them
SortByRepoNameUnsorted(reports) == reports

RECURSIVE SortByRepoName(_)
SortByRepoName(reports) ==
    IF reports = <<>> THEN <<>>
    ELSE InsertByKey(SortByRepoName(SubSeq(reports, 1, Len(reports) - 1)),
                     reports[Len(reports)])

(***************************************************************************)
(* generate_html_report after the glob: `globbed` holds the contents of    *)
(* the matched files in the order glob returned them.  The result is the   *)
(* outcome of the call: "skipped" (nothing matched), "crashed" (an         *)
(* exception no handler of the function catches) or "written", with the    *)
(* matrix and the number of files skipped with a warning.                  *)
(***************************************************************************)
LoadReports(globbed) ==
    LET parsed == SelectSeq(globbed, JsonParses)
    IN  [k \in 1..Len(parsed) |-> JsonLoads(parsed[k])]

MatrixRow(rule, reports) ==
    [title |-> RowTitle(rule),
     cells |-> [k \in 1..Len(reports) |-> CellSymbol(rule, ChecksOf(reports[k]))]]

Render(rules, globbed) ==
    LET loaded == LoadReports(globbed)
        skipped == Len(globbed) - Len(loaded)
        none == [status |-> "skipped", header |-> <<>>, rows |-> <<>>, warnings |-> 0]
    IN  IF globbed = <<>> THEN none                       \* lines 17-19
        ELSE IF \E k \in 1..Len(loaded) : loaded[k].type # "object"
             \* line 32: x.get on a value that is no dict raises AttributeError
             THEN [none EXCEPT !.status = "crashed", !.warnings = skipped]
        ELSE IF rules.type # "array"
             \* line 65: iterating a dict yields its keys, str has no get
             THEN [none EXCEPT !.status = "crashed", !.warnings = skipped]
        ELSE LET reports == SortByRepoName(loaded)
             IN  [status |-> "written",
                  header |-> [k \in 1..Len(reports) |-> ColumnName(reports[k])],
                  rows |-> [r \in 1..Len(rules.items) |->
                               MatrixRow(rules.items[r], reports)],
                  warnings |-> skipped]

(***************************************************************************)
(* File names of the reports directory.  A name is the repository name     *)
(* followed by the suffix "-report.json".                                  *)
(***************************************************************************)
ReportSuffix == "-report.json"

ReportFilename(repo_name) == Append(repo_name, ReportSuffix)

\* glob '*-report.json': fnmatch, where * does not match a leading dot
GlobMatches(fname) ==
    /\ fname # <<>>
    /\ fname[Len(fname)] = ReportSuffix
    /\ fname[1] # "."

Orderings(S) ==
    {o \in [1..Cardinality(S) -> S] : \A a, b \in 1..Cardinality(S) : a # b => o[a] # o[b]}

(***************************************************************************)
(* State.                                                                  *)
(***************************************************************************)
VARIABLES
    rules_file,      \* the file at args.rules_path: [exists, valid, value]
    reports_dir_ok,  \* whether os.makedirs(reports_dir) succeeds
    base_is_dir,     \* os.path.isdir(args.repository_base_path)
    agent_found,     \* whether the gemini executable is on the PATH
    repo_list,       \* child directories of the base path: [name, hasGit]
    files,           \* reports directory: file name -> content (a text)
    index_html,      \* reports_dir/index.html: [exists, header, rows]
    pc,              \* position of the process
    rules,           \* the loaded rules (run_evaluation's local)
    idx,             \* position of the for loop in repo_list
    exit_code,       \* exit status of the process, -1 while it runs
    runs,            \* agent invocations so far: [repo, returncode, stdout]
    written,         \* report file names written by this run
    html_written,    \* whether this run wrote index.html
    log,             \* messages printed so far: [msg, repo]
    text_in,         \* sanitizer specification: the input text
    text_once,       \* sanitizer specification: Sanitize(text_in)
    text_twice,      \* sanitizer specification: Sanitize(text_once)
    file_content,    \* fence specification: the file clean_json_file rewrites
    rules_output,    \* fence specification: cleaned_output of the rule generator
    cell_rule,       \* cell specification: the rule of the cell
    cell_report,     \* cell specification: the report of the cell
    cell_out         \* cell specification: the rendered marker

envVars == <<rules_file, reports_dir_ok, base_is_dir, agent_found, repo_list>>

runVars == <<files, index_html, rules, idx, exit_code, runs, written, html_written, log>>

sanVars == <<text_in, text_once, text_twice, file_content, rules_output>>

cellVars == <<cell_rule, cell_report, cell_out>>

vars == <<envVars, runVars, sanVars, cellVars, pc>>

(***************************************************************************)
(* Input pools.                                                            *)
(***************************************************************************)
RuleCatalog ==
    <<Rule("r1", TRUE, "Uses semantic versioning"),
      Rule("r2", FALSE, ""),
      Rule("r3", TRUE, "Has CI")>>

\* the rules documents: lists of up to MaxRules rule records
RuleLists == {SubSeq(RuleCatalog, 1, n) : n \in 0..(IF MaxRules < 3 THEN MaxRules ELSE 3)}

NoRules == [type |-> "none", items |-> <<>>]

RulesFiles ==
    {[exists |-> FALSE, valid |-> FALSE, value |-> NoRules],      \* no such file
     [exists |-> TRUE, valid |-> FALSE, value |-> NoRules],       \* not JSON
     [exists |-> TRUE, valid |-> TRUE,                             \* a JSON object
      value |-> [type |-> "object", items |-> <<>>]]}
    \cup {[exists |-> TRUE, valid |-> TRUE, value |-> [type |-> "array", items |-> l]] :
            l \in RuleLists}

RepoNames == {<<"a">>, <<"B">>, <<".", "d">>}

RepoLists ==
    {l \in UNION {[1..n -> [name : RepoNames, hasGit : BOOLEAN]] : n \in 0..MaxRepos} :
        \A a, b \in 1..Len(l) : a # b => l[a].name # l[b].name}

ChecksA == <<Check("r1", TRUE, <<"P", "a", "s", "s">>), Check("r2", TRUE, <<"f", "a", "i", "l">>)>>

ChecksB == <<Check("r2", TRUE, <<"o", "k">>), Check("r2", TRUE, <<"p", "a", "s", "s">>)>>

\* texts the agent may print for repository `name`
AgentOutputs(name) ==
    {<<JsonTok(JsonObject(TRUE, name, TRUE, ChecksA), 2)>>,
     FenceOpen \o <<Ch("\n"), JsonTok(JsonObject(TRUE, name, TRUE, ChecksB), 0), Ch("\n")>>
        \o FenceClose \o <<Ch("\n")>>,
     FenceOpen \o <<JsonTok(JsonArray, 0)>> \o FenceClose,
     <<Ch("x"), JsonTok(JsonObject(TRUE, name, TRUE, ChecksA), 0)>>,
     <<>>}

\* contents of report files left in the directory before the run
PriorContents ==
    {<<JsonTok(JsonObject(TRUE, <<"a", "b">>, TRUE, ChecksB), 0)>>,
     <<JsonTok(JsonObject(FALSE, <<>>, FALSE, <<>>), 2)>>,
     <<JsonTok(JsonArray, 2)>>,
     <<Ch("x")>>}

EmptyDir == [f \in {} |-> <<>>]

PriorDirs ==
    {EmptyDir} \cup
    {[f \in {ReportFilename(n)} |-> c] : n \in RepoNames \cup {<<"z">>}, c \in PriorContents}

NoIndex == [exists |-> FALSE, header |-> <<>>, rows |-> <<>>]

StaleIndex == [exists |-> TRUE, header |-> <<<<"o", "l", "d">>>>, rows |-> <<>>]

(***************************************************************************)
(* The scan tool.                                                          *)
(***************************************************************************)
Msg(m, repo) == [msg |-> m, repo |-> repo]

NoRepo == <<>>

SanIdle ==
    /\ text_in = <<>> /\ text_once = <<>> /\ text_twice = <<>>
    /\ file_content = <<>> /\ rules_output = <<>>

CellIdle ==
    /\ cell_rule = Rule("", FALSE, "")
    /\ cell_report = JsonObject(FALSE, <<>>, FALSE, <<>>)
    /\ cell_out = ""

Init ==
    /\ rules_file \in RulesFiles
    /\ reports_dir_ok \in BOOLEAN
    /\ base_is_dir \in BOOLEAN
    /\ agent_found \in BOOLEAN
    /\ repo_list \in RepoLists
    /\ files \in (IF reports_dir_ok THEN PriorDirs ELSE {EmptyDir})
    /\ index_html \in (IF reports_dir_ok THEN {NoIndex, StaleIndex} ELSE {NoIndex})
    /\ pc = "start"
    /\ rules = NoRules
    /\ idx = 1
    /\ exit_code = -1
    /\ runs = <<>>
    /\ written = {}
    /\ html_written = FALSE
    /\ log = <<>>
    /\ SanIdle
    /\ CellIdle

\* run_evaluation, lines 101-143: the message of the pre-check that ends the
\* run, "" when every pre-check passes
SetupErrorRulesOptional(dir_ok, rfile, is_dir) ==
    IF ~dir_ok THEN "Error: Could not create reports directory"
    ELSE IF rfile.exists /\ ~rfile.valid THEN "Error: Could not read or parse rules file"
    ELSE IF ~is_dir THEN "Error: not a valid directory"
    ELSE ""

SetupError(dir_ok, rfile, is_dir) ==
    IF ~dir_ok THEN "Error: Could not create reports directory"
    ELSE IF ~rfile.exists THEN "Error: Rules file not found"
    ELSE IF ~rfile.valid THEN "Error: Could not read or parse rules file"
    ELSE IF ~is_dir THEN "Error: not a valid directory"
    ELSE ""

\* run_evaluation, lines 100-147: setup and pre-checks
Setup ==
    /\ pc = "start"
    /\ LET err == SetupError(reports_dir_ok, rules_file, base_is_dir)
           loaded == reports_dir_ok /\ rules_file.exists /\ rules_file.valid
       IN  /\ rules' = IF loaded \/ err = "" THEN rules_file.value ELSE rules
           /\ IF err # ""
              THEN /\ pc' = "exited"
                   /\ exit_code' = 1
                   /\ log' = log \o (IF loaded
                                     THEN <<Msg("Successfully loaded rules", NoRepo)>>
                                     ELSE <<>>)
                                 \o <<Msg(err, NoRepo)>>
              ELSE /\ pc' = "loop"
                   /\ log' = Append(log, Msg("Successfully loaded rules", NoRepo))
                   /\ UNCHANGED exit_code
    /\ UNCHANGED <<envVars, sanVars, cellVars>>
    /\ UNCHANGED <<files, index_html, idx, runs, written, html_written>>

\* the outcomes of subprocess.run(["gemini", ...], check=True) when the
\* executable exists: a non-zero exit status, or status 0 with some stdout
AgentOutcomes(name) ==
    {[repo |-> name, returncode |-> 1, stdout |-> <<>>]}
    \cup {[repo |-> name, returncode |-> 0, stdout |-> t] : t \in AgentOutputs(name)}

WriteFile(dir, fname, content) ==
    [f \in DOMAIN dir \cup {fname} |-> IF f = fname THEN content ELSE dir[f]]

\* what line 191 writes
StoredContentPretty(cleaned_output) == JsonDumpsIndent2(JsonLoads(cleaned_output))

StoredContent(cleaned_output) == cleaned_output

\* os.path.isdir(git_dir), line 153
QualifiesAlways(repo) == TRUE

Qualifies(repo) == repo.hasGit

\* lines 195-197: FileNotFoundError ends the process with status 1
AgentMissingContinues == [pc |-> "loop", exit_code |-> -1]

AgentMissing == [pc |-> "exited", exit_code |-> 1]

\* run_evaluation, lines 149-205: one iteration of the loop over repo_list
ProcessRepo ==
    /\ pc = "loop"
    /\ idx <= Len(repo_list)
    /\ LET repo == repo_list[idx]
           repo_name == repo.name
       IN  IF ~Qualifies(repo)
           THEN /\ log' = Append(log, Msg("Skipping (not a Git repository)", repo_name))
                /\ idx' = idx + 1
                /\ UNCHANGED <<pc, exit_code, runs, files, written>>
           ELSE IF ~agent_found
           THEN \* FileNotFoundError from subprocess.run
                /\ pc' = AgentMissing.pc
                /\ exit_code' = AgentMissing.exit_code
                /\ idx' = IF AgentMissing.pc = "loop" THEN idx + 1 ELSE idx
                /\ log' = log \o <<Msg("Found Git repository", repo_name),
                                   Msg("Error: 'gemini' command not found", NoRepo)>>
                /\ UNCHANGED <<runs, files, written>>
           ELSE \E result \in AgentOutcomes(repo_name) :
                LET cleaned_output == Sanitize(result.stdout)
                    found == Msg("Found Git repository", repo_name)
                IN  /\ runs' = Append(runs, result)
                    /\ idx' = idx + 1
                    /\ UNCHANGED <<pc, exit_code>>
                    /\ IF result.returncode # 0
                       THEN \* CalledProcessError, lines 198-201
                            /\ log' = log \o <<found, Msg("Error while evaluating repository",
                                                          repo_name)>>
                            /\ UNCHANGED <<files, written>>
                       ELSE IF ~JsonParses(cleaned_output)
                       THEN \* JSONDecodeError, lines 185-188
                            /\ log' = log \o <<found, Msg("Error: Gemini output was not valid JSON",
                                                          repo_name)>>
                            /\ UNCHANGED <<files, written>>
                       ELSE /\ files' = WriteFile(files, ReportFilename(repo_name),
                                                  StoredContent(cleaned_output))
                            /\ written' = written \cup {ReportFilename(repo_name)}
                            /\ log' = log \o <<found, Msg("Successfully generated JSON report",
                                                          repo_name)>>
    /\ UNCHANGED <<envVars, sanVars, cellVars>>
    /\ UNCHANGED <<rules, index_html, html_written>>

\* what generate_html_report does when the glob matches nothing, lines 17-19
WritesEmptySummary(out) == out.status # "crashed"

WritesSummary(out) == out.status = "written"

\* run_evaluation, lines 207-210, with generate_html_report, lines 8-94
GenerateHtmlReport ==
    /\ pc = "loop"
    /\ idx > Len(repo_list)
    /\ \E report_files \in Orderings({f \in DOMAIN files : GlobMatches(f)}) :
         LET out == Render(rules, [k \in 1..Len(report_files) |-> files[report_files[k]]])
             warned == [k \in 1..out.warnings |->
                          Msg("Warning: Could not read or parse report file", NoRepo)]
         IN  /\ pc' = "exited"
             /\ IF out.status = "crashed"
                THEN /\ exit_code' = 1
                     /\ log' = log \o warned \o <<Msg("Traceback", NoRepo)>>
                ELSE IF out.status = "skipped"
                THEN /\ exit_code' = 0
                     /\ log' = log \o <<Msg("Warning: No JSON report files found", NoRepo),
                                        Msg("Evaluation and reporting complete", NoRepo)>>
                ELSE /\ exit_code' = 0
                     /\ log' = log \o warned \o
                               <<Msg("Successfully generated HTML report", NoRepo),
                                 Msg("Evaluation and reporting complete", NoRepo)>>
             /\ IF WritesSummary(out)
                THEN /\ index_html' = [exists |-> TRUE, header |-> out.header,
                                       rows |-> out.rows]
                     /\ html_written' = TRUE
                ELSE UNCHANGED <<index_html, html_written>>
    /\ UNCHANGED <<envVars, sanVars, cellVars>>
    /\ UNCHANGED <<rules, idx, runs, files, written>>

Next == Setup \/ ProcessRepo \/ GenerateHtmlReport

Spec == Init /\ [][Next]_vars

(***************************************************************************)
(* Specification of the sanitizer alone: the input is any concatenation of *)
(* up to MaxChunks chunks; the sanitizer is applied to it, then to its own *)
(* result.                                                                 *)
(***************************************************************************)
SomeJson == JsonTok(JsonObject(FALSE, <<>>, FALSE, <<>>), 0)

Chunks == {FenceOpen, FenceClose, <<Ch(" ")>>, <<Ch("\n")>>, <<SomeJson>>, <<Backtick>>}

RECURSIVE Concat(_)
Concat(ss) == IF ss = <<>> THEN <<>> ELSE Head(ss) \o Concat(Tail(ss))

SanitizerInputs == {Concat(ss) : ss \in UNION {[1..n -> Chunks] : n \in 0..MaxChunks}}

RunIdle ==
    /\ rules_file = [exists |-> FALSE, valid |-> FALSE, value |-> NoRules]
    /\ reports_dir_ok = FALSE
    /\ base_is_dir = FALSE
    /\ agent_found = FALSE
    /\ repo_list = <<>>
    /\ files = EmptyDir
    /\ index_html = NoIndex
    /\ rules = NoRules
    /\ idx = 1
    /\ exit_code = -1
    /\ runs = <<>>
    /\ written = {}
    /\ html_written = FALSE
    /\ log = <<>>

InitSanitize ==
    /\ pc = "sanitize"
    /\ text_in \in SanitizerInputs
    /\ text_once = <<>>
    /\ text_twice = <<>>
    /\ file_content = <<>>
    /\ rules_output = <<>>
    /\ RunIdle
    /\ CellIdle

SanitizeOnce ==
    /\ pc = "sanitize"
    /\ text_once' = Sanitize(text_in)
    /\ pc' = "sanitized"
    /\ UNCHANGED <<envVars, runVars, cellVars, text_in, text_twice, file_content, rules_output>>

SanitizeAgain ==
    /\ pc = "sanitized"
    /\ text_twice' = Sanitize(text_once)
    /\ pc' = "resanitized"
    /\ UNCHANGED <<envVars, runVars, cellVars, text_in, text_once, file_content, rules_output>>

NextSanitize == SanitizeOnce \/ SanitizeAgain

SpecSanitize == InitSanitize /\ [][NextSanitize]_vars

(***************************************************************************)
(* Specification of the three fence strippers on one text: the text is the *)
(* content of the file given to clean_json_file and the stdout the scan    *)
(* tool and the rule generator capture.  The file exists.                  *)
(***************************************************************************)
InitFence ==
    /\ pc = "fence"
    /\ text_in \in SanitizerInputs
    /\ file_content = text_in
    /\ text_once = <<>>
    /\ text_twice = <<>>
    /\ rules_output = <<>>
    /\ RunIdle
    /\ CellIdle

\* src/correct_json.py, lines 9-29
CleanJsonFile ==
    /\ pc = "fence"
    /\ file_content' = CleanJsonContent(file_content)
    /\ pc' = "cleaned"
    /\ UNCHANGED <<envVars, runVars, cellVars, text_in, text_once, text_twice, rules_output>>

\* src/compare.py, lines 175-180
ScanSanitize ==
    /\ pc = "cleaned"
    /\ text_once' = Sanitize(text_in)
    /\ pc' = "scanned"
    /\ UNCHANGED <<envVars, runVars, cellVars, text_in, text_twice, file_content, rules_output>>

\* src/spec.py, lines 63-68
RuleGenSanitize ==
    /\ pc = "scanned"
    /\ rules_output' = SpecSanitizer(text_in)
    /\ pc' = "compared"
    /\ UNCHANGED <<envVars, runVars, cellVars, text_in, text_once, text_twice, file_content>>

NextFence == CleanJsonFile \/ ScanSanitize \/ RuleGenSanitize

SpecFence == InitFence /\ [][NextFence]_vars

(***************************************************************************)
(* Specification of one cell of the matrix: any rule against any report    *)
(* of up to MaxChecks checks.                                              *)
(***************************************************************************)
\* the spellings of s with the letters at the positions of `upper` in upper case
Spelling(s, upper) ==
    [k \in 1..Len(s) |->
        IF k \in upper
        THEN CHOOSE c \in {"A", "F", "I", "L", "P", "S"} : LowerChar(c) = s[k]
        ELSE s[k]]

ResultPool ==
    {Spelling(w, u) : w \in {PassStr, FailStr}, u \in {{}, {1}, {2, 4}, {1, 2, 3, 4}}}
    \cup {<<>>, <<"p", "a", "s", "s", "e", "d">>, <<"p", "a", "s">>}

CheckPool ==
    {Check(id, TRUE, r) : id \in {"r1", "r2"}, r \in ResultPool}
    \cup {Check(id, FALSE, <<>>) : id \in {"r1", "r2"}}

CheckLists == UNION {[1..n -> CheckPool] : n \in 0..MaxChecks}

InitCell ==
    /\ pc = "cell"
    /\ cell_rule \in {Rule(id, FALSE, "") : id \in {"r1", "r2"}}
    /\ cell_report \in {JsonObject(TRUE, <<"a">>, TRUE, cs) : cs \in CheckLists}
                       \cup {JsonObject(TRUE, <<"a">>, FALSE, <<>>)}
    /\ cell_out = ""
    /\ RunIdle
    /\ SanIdle

\* lines 66-76 for one rule and one report
RenderCell ==
    /\ pc = "cell"
    /\ cell_out' = CellSymbol(cell_rule, ChecksOf(cell_report))
    /\ pc' = "rendered"
    /\ UNCHANGED <<envVars, runVars, sanVars, cell_rule, cell_report>>

NextCell == RenderCell

SpecCell == InitCell /\ [][NextCell]_vars

(***************************************************************************)
(* Properties.                                                             *)
(***************************************************************************)
Logged(m) == \E k \in 1..Len(log) : log[k].msg = m

LoggedFor(m, repo) == \E k \in 1..Len(log) : log[k] = Msg(m, repo)

\* the process ended in or after generate_html_report
RenderRan ==
    /\ pc = "exited"
    /\ Logged("Evaluation and reporting complete") \/ Logged("Traceback")

MatchedFiles == {f \in DOMAIN files : GlobMatches(f)}

LoadedFiles == {f \in MatchedFiles : JsonParses(files[f])}

\* the matrix in index_html has one row per rule, in rule order, and one column
\* per loaded report, ascending by repoName
MatrixShape ==
    /\ Len(index_html.rows) = Len(rules.items)
    /\ Len(index_html.header) = Cardinality(LoadedFiles)
    /\ \A r \in 1..Len(index_html.rows) :
         /\ index_html.rows[r].title = RowTitle(rules.items[r])
         /\ Len(index_html.rows[r].cells) = Cardinality(LoadedFiles)
    /\ \E o \in Orderings(LoadedFiles) :
         \A k \in 1..Len(o) :
           /\ index_html.header[k] = ColumnName(JsonLoads(files[o[k]]))
           /\ k < Len(o) =>
                ~StrLess(SortKey(JsonLoads(files[o[k + 1]])), SortKey(JsonLoads(files[o[k]])))

\* C1: for a rule list of N rules and a directory in which M report files load
\* and parse, generate_html_report emits a matrix of N rows in rule order and
\* M columns in ascending order of repoName.
C1_MatrixEmitted ==
    (RenderRan /\ rules.type = "array" /\ LoadedFiles # {}) =>
        (html_written /\ MatrixShape)

\* whenever the summary is written it has the shape C1 states
C1_ShapeWhenWritten == html_written => MatrixShape

C1_Written == html_written /\ Cardinality(LoadedFiles) >= 2 /\ Len(rules.items) >= 2

\* C3: when the glob matches no report file at render time, the renderer
\* writes nothing: index.html is neither created nor modified, no other file
\* changes, and the warning is printed.
C3_NoReportsNoWrite ==
    [][(pc = "loop" /\ idx > Len(repo_list) /\ MatchedFiles = {}) =>
         /\ index_html' = index_html
         /\ html_written' = html_written
         /\ files' = files
         /\ \E k \in Len(log) + 1..Len(log') :
              log'[k].msg = "Warning: No JSON report files found"]_vars

C3_Witness ==
    /\ RenderRan
    /\ MatchedFiles = {}
    /\ index_html = StaleIndex
    /\ Logged("Warning: No JSON report files found")
    /\ \E k \in 1..Len(repo_list) : repo_list[k].hasGit

\* C4: when the rules file does not exist the tool exits with status 1, the
\* agent is invoked for no repository, and no report file and no index.html
\* is written.
C4_MissingRulesFile ==
    ~rules_file.exists =>
        /\ runs = <<>>
        /\ written = {}
        /\ ~html_written
        /\ pc \in {"start", "exited"}
        /\ pc = "exited" => exit_code = 1

C4_Witness ==
    /\ ~rules_file.exists
    /\ pc = "exited"
    /\ reports_dir_ok /\ base_is_dir /\ agent_found
    /\ \E k \in 1..Len(repo_list) : repo_list[k].hasGit

InvokedNames == {runs[k].repo : k \in 1..Len(runs)}

GitNames == {repo_list[k].name : k \in {j \in 1..Len(repo_list) : repo_list[j].hasGit}}

NonGitNames == {repo_list[k].name : k \in {j \in 1..Len(repo_list) : ~repo_list[j].hasGit}}

\* C5 as stated: in every scan run the agent is invoked for a child directory
\* if and only if the directory contains .git.
C5_InvokedIffGit == pc = "exited" => InvokedNames = GitNames

\* C5 amended: the agent is invoked only for children that contain .git; a
\* child without one is skipped with a notice once the loop has passed it and
\* gets no report file written by the run; and when the run completes the
\* enumeration, every child that contains .git has been submitted.
C5_OnlyGitInvoked ==
    /\ InvokedNames \subseteq GitNames
    /\ \A n \in NonGitNames : ReportFilename(n) \notin written
    /\ \A k \in 1..Len(repo_list) :
         (pc # "start" /\ k < idx /\ ~repo_list[k].hasGit) =>
             LoggedFor("Skipping (not a Git repository)", repo_list[k].name)
    /\ RenderRan => InvokedNames = GitNames

C5_Witness ==
    /\ RenderRan
    /\ GitNames # {} /\ NonGitNames # {}
    /\ InvokedNames = GitNames
    /\ written # {}

\* two strings are equal up to the case of their letters
SameLetter(x, y) ==
    x = y \/ {x, y} \in {{"a", "A"}, {"f", "F"}, {"i", "I"}, {"l", "L"}, {"p", "P"}, {"s", "S"}}

EqualsIgnoreCase(a, b) ==
    Len(a) = Len(b) /\ \A k \in 1..Len(a) : SameLetter(a[k], b[k])

CellMatches == {k \in 1..Len(ChecksOf(cell_report)) : ChecksOf(cell_report)[k].id = cell_rule.id}

CellFirstMatch ==
    ChecksOf(cell_report)[CHOOSE k \in CellMatches : \A j \in CellMatches : k <= j]

CellResult == IF CellFirstMatch.hasResult THEN CellFirstMatch.result ELSE <<>>

HasFence(t) == StartsWith(t, FenceOpen) \/ EndsWith(t, FenceClose)

\* C6 as stated: sanitizing twice equals sanitizing once for every text, and a
\* text that neither starts with the opening fence nor ends with the closing
\* fence is returned unchanged.
C6_Idempotent ==
    pc = "resanitized" =>
        /\ text_twice = text_once
        /\ ~HasFence(text_in) => text_once = text_in

\* C6 amended: when the sanitized text itself carries no fence marker at either
\* end, sanitizing it again changes nothing; and a text that has no surrounding
\* whitespace, does not start with the opening fence and does not end with the
\* closing fence is returned unchanged.
C6_IdempotentOnFenceFree ==
    /\ (pc = "resanitized" /\ ~HasFence(text_once)) => text_twice = text_once
    /\ (pc # "sanitize" /\ ~HasFence(text_in) /\ Strip(text_in) = text_in) =>
           text_once = text_in

C6_Witness ==
    /\ pc = "resanitized"
    /\ HasFence(text_in)
    /\ \E k \in 1..Len(text_in) : text_in[k] \in Whitespace
    /\ text_once # text_in
    /\ ~HasFence(text_once)
    /\ text_twice = text_once
    /\ text_once # <<>>

\* the invocations that exited non-zero or whose sanitized output is no JSON
SoftFailed(k) == runs[k].returncode # 0 \/ ~JsonParses(Sanitize(runs[k].stdout))

\* C7: for every qualifying repository whose invocation exits non-zero or
\* whose sanitized output does not parse, no report file is written for it by
\* this run, every later repository of the enumeration is still evaluated, and
\* the run ends with exit code 0.
C7_SoftFailureContinues ==
    \A k \in 1..Len(runs) :
        SoftFailed(k) =>
            /\ ReportFilename(runs[k].repo) \notin written
            /\ pc = "exited" => (InvokedNames = GitNames /\ exit_code = 0)

\* the part of C7 that does not depend on the renderer: nothing is written for
\* the failed repository and the loop goes on to the end of the enumeration
C7_LoopContinues ==
    \A k \in 1..Len(runs) :
        SoftFailed(k) =>
            /\ ReportFilename(runs[k].repo) \notin written
            /\ pc = "exited" => (InvokedNames = GitNames /\ RenderRan)

C9_RulesShapeRejected ==
    (pc # "start"
        /\ ~(rules_file.exists /\ rules_file.valid /\ rules_file.value.type = "array")) =>
        /\ pc = "exited"
        /\ exit_code = 1
        /\ runs = <<>>

\* what the loader does reject: a missing file and a file that is not JSON
C9_NonJsonRejected ==
    (pc # "start" /\ ~(rules_file.exists /\ rules_file.valid)) =>
        (pc = "exited" /\ exit_code = 1 /\ runs = <<>>)

\* the successful evaluations of this run
Succeeded(k) == runs[k].returncode = 0 /\ JsonParses(Sanitize(runs[k].stdout))

\* C10 as stated: after a successful evaluation of R the file R-report.json
\* holds the pretty-printed serialization of the parsed document.
C10_StoredPretty ==
    \A k \in 1..Len(runs) :
        Succeeded(k) =>
            /\ ReportFilename(runs[k].repo) \in DOMAIN files
            /\ files[ReportFilename(runs[k].repo)]
                   = JsonDumpsIndent2(JsonLoads(Sanitize(runs[k].stdout)))

\* C10 amended: after a successful evaluation of R the file R-report.json
\* exists and holds the sanitized agent output as received, a text that
\* parses to the document the agent printed.
C10_StoredAsReceived ==
    \A k \in 1..Len(runs) :
        Succeeded(k) =>
            LET fname == ReportFilename(runs[k].repo)
            IN  /\ fname \in DOMAIN files
                /\ fname \in written
                /\ JsonParses(files[fname])
                /\ Len(files[fname]) = 1
                /\ \E j \in 1..Len(runs[k].stdout) : runs[k].stdout[j] = files[fname][1]

C10_Witness ==
    \E k \in 1..Len(runs) :
        /\ Succeeded(k)
        /\ StartsWith(runs[k].stdout, FenceOpen)
        /\ files[ReportFilename(runs[k].repo)][1].indent = 0

\* the matched files that hold a JSON object, the shape of a report
ReportObjectFiles == {f \in LoadedFiles : JsonLoads(files[f]).type = "object"}

\* C11: at render time every report file that is unreadable or malformed, a
\* stored file of well-formed JSON that is no report object included, is left
\* out of the matrix with a log message, and rendering completes over the
\* remaining reports without ending the run: with a list of rules loaded, a
\* run that reaches the renderer ends with exit code 0, and when report files
\* are found the summary is written with one column per report object.
C11_RenderContainsBadFiles ==
    (RenderRan /\ rules.type = "array") =>
        /\ exit_code = 0
        /\ ~Logged("Traceback")
        /\ MatchedFiles # {} =>
             /\ html_written
             /\ Len(index_html.header) = Cardinality(ReportObjectFiles)

\* what the renderer does contain: a file that is not JSON is left out with a
\* warning and the summary is written over the files that load
C11_NonJsonFilesSkipped ==
    (RenderRan /\ rules.type = "array" /\ ReportObjectFiles = LoadedFiles
        /\ MatchedFiles # {}) =>
        /\ exit_code = 0
        /\ html_written
        /\ Len(index_html.header) = Cardinality(LoadedFiles)
        /\ MatchedFiles # LoadedFiles => Logged("Warning: Could not read or parse report file")

\* the report files of the directory that load, dot-files included
PresentReports == {f \in DOMAIN files : JsonParses(files[f])}

C13_FirstDuplicateWins ==
    (pc = "rendered" /\ Cardinality(CellMatches) >= 2) =>
        /\ cell_out = "pass" <=> EqualsIgnoreCase(CellResult, PassStr)
        /\ cell_out = "fail" <=> EqualsIgnoreCase(CellResult, FailStr)
        /\ cell_out \in {"pass", "fail", "unknown"}

C13_Witness ==
    /\ pc = "rendered"
    /\ Cardinality(CellMatches) = 2
    /\ Len(ChecksOf(cell_report)) = 2
    /\ CellResult = <<"p", "a", "s", "s", "e", "d">>
    /\ ChecksOf(cell_report)[2].result = PassStr
    /\ cell_out = "unknown"

\* the repositories of the enumeration that this run passed without storing a
\* report: skipped as no Git repository, or evaluated with a soft failure
PassedWithoutReport ==
    {repo_list[k].name : k \in {j \in 1..Len(repo_list) : j < idx /\ pc # "start"}}
        \ {runs[k].repo : k \in {j \in 1..Len(runs) : Succeeded(j)}}

\* C14: when a repository's evaluation soft-fails or the repository is
\* skipped, the report file an earlier run left for it is not replaced, and
\* the summary rendered at the end of the run still has a column for that
\* earlier report.
C14_EarlierReportKept ==
    \A n \in PassedWithoutReport :
        LET fname == ReportFilename(n)
        IN  (fname \in DOMAIN files /\ JsonParses(files[fname])
                /\ JsonLoads(files[fname]).type = "object") =>
                /\ fname \notin written
                /\ RenderRan =>
                     /\ html_written
                     /\ \E c \in 1..Len(index_html.header) :
                          index_html.header[c] = ColumnName(JsonLoads(files[fname]))

\* the part of C14 about the file: a step of the run changes a report file
\* only by storing the output of a successful evaluation of its repository
C14_OnlySuccessReplaces ==
    [][\A f \in DOMAIN files :
          /\ f \in DOMAIN files'
          /\ files'[f] # files[f] =>
               /\ Len(runs') = Len(runs) + 1
               /\ f = ReportFilename(runs'[Len(runs')].repo)
               /\ runs'[Len(runs')].returncode = 0
               /\ JsonParses(Sanitize(runs'[Len(runs')].stdout))]_vars

\* the part of C14 about the summary that holds: when the run ends with exit
\* code 0 and the glob matches the earlier report, the summary has its column
C14_ColumnKeptWhenRendered ==
    \A n \in PassedWithoutReport :
        LET fname == ReportFilename(n)
        IN  (fname \in DOMAIN files /\ JsonParses(files[fname]) /\ GlobMatches(fname)
                /\ JsonLoads(files[fname]).type = "object"
                /\ pc = "exited" /\ exit_code = 0) =>
                    /\ html_written
                    /\ \E c \in 1..Len(index_html.header) :
                         index_html.header[c] = ColumnName(JsonLoads(files[fname]))

\* C15: the three fence strippers agree: for every input text, the content
\* clean_json_file writes back equals the text the scan tool's sanitizer and
\* the rule generator's sanitizer produce.
C15_FenceStrippersAgree ==
    pc = "compared" => (file_content = text_once /\ text_once = rules_output)

C15_Witness ==
    /\ pc = "compared"
    /\ Len(text_in) > Len(FenceOpen) + Len(FenceClose)
    /\ StartsWith(text_in, FenceOpen)
    /\ text_in[Len(FenceOpen) + 1] \in Whitespace
    /\ EndsWith(text_in, FenceClose)
    /\ file_content = <<SomeJson>>
    /\ text_once = <<SomeJson>>

=============================================================================
